---- MODULE Spec2Model ----
(***************************************************************************)
(* Model of net::messaging_service (src/message/messaging_service.cc):     *)
(* the listener slots, the per-verb-class client cache, the send pipeline  *)
(* (send_message, send_message_timeout, send_message_timeout_and_retry)    *)
(* and the shutdown protocol.  The rpc transport, the gossiper and the     *)
(* reactor are the environment: they resolve futures, set a connection's   *)
(* error flag, forget endpoints and abort sleeps.                          *)
(***************************************************************************)
EXTENDS Integers, Sequences, FiniteSets, TLC

\* ------------------------------------------------------------------ bounds
MaxConn == 3        \* connections created over a run
MaxSends == 2       \* requests handed out by the send primitives over a run
MaxRetry == 3       \* largest nr_retry passed to send_message_timeout_and_retry
MaxGets == 3        \* calls of get_rpc_client made from outside the send primitives

\* ------------------------------------------------------------ value domains
Addrs == {"p1", "p2"}
CpuIds == {0, 1}
\* msg_addr: a peer's broadcast address and the shard it was seen from
MsgAddr(a, cpu) == [addr |-> a, cpu_id |-> cpu]
P1 == MsgAddr("p1", 0)
P1Ids == {MsgAddr("p1", cpu) : cpu \in CpuIds}
P2 == MsgAddr("p2", 0)
Peers == {P1, P2}
Verbs == {"GOSSIP_ECHO", "GOSSIP_DIGEST_SYN", "GOSSIP_DIGEST_ACK"}
TimeoutVerbs == {"GOSSIP_ECHO"}     \* sent by send_message_timeout (send_gossip_echo)
Class1Verbs == {"GOSSIP_DIGEST_SYN", "GOSSIP_DIGEST_ACK2", "GOSSIP_SHUTDOWN", "GOSSIP_ECHO"}
EncryptWhat == {"none", "all", "dc", "rack"}
Slots == {0, 1}
Failures == {"closed_error", "timeout_error", "server_error"}

VARIABLES
    cfg,          \* constructor arguments: encrypt_what, sltba, bc_differs, credentials, listen_now
    server,       \* _server[0..1]: "null", "listening", "stopping", "stopped"
    server_tls,   \* _server_tls[0..1]
    stopping,     \* _stopping
    stop_future,  \* future of messaging_service::stop(): "none", "pending", "resolved"
    stop_waits,   \* what the when_all of stop() waits for
    clients,      \* _clients: entries [idx, id, c] of the two clients_map tables
    conns,        \* every rpc_protocol_client_wrapper ever made, see NewConn
    dropped,      \* _dropped_messages
    sends,        \* futures returned by send_message / send_message_timeout
    retries,      \* calls of send_message_timeout_and_retry
    known,        \* endpoints the gossiper knows (is_known_endpoint)
    got           \* what get_rpc_client returned to callers outside the send primitives

vars == <<cfg, server, server_tls, stopping, stop_future, stop_waits, clients,
          conns, dropped, sends, retries, known, got>>

\* --------------------------------------------------------------- listeners
\* messaging_service::start_listen
listen_to_bc == cfg.sltba /\ cfg.bc_differs

\* variant: the broadcast address is listened to whatever listen_to_bc says
start_listen_plain_both(srv) ==
    IF srv[0] = "null" THEN [i \in Slots |-> "listening"] ELSE srv

start_listen_plain(srv) ==
    IF srv[0] = "null"
    THEN [i \in Slots |-> IF i = 0 \/ listen_to_bc THEN "listening" ELSE srv[i]]
    ELSE srv

tls_listen == IF cfg.encrypt_what = "none" THEN "null" ELSE "listening"

\* variant: the TLS listeners are made anew on every call
start_listen_tls_unguarded(srv) ==
    [i \in Slots |-> IF i = 0 \/ listen_to_bc THEN tls_listen ELSE srv[i]]

start_listen_tls(srv) ==
    IF srv[0] = "null"
    THEN [i \in Slots |-> IF i = 0 \/ listen_to_bc THEN tls_listen ELSE srv[i]]
    ELSE srv

NoServers == [i \in Slots |-> "null"]

\* the slot whose stop() the loop of stop_tls_server / stop_nontls_server returns:
\* the loop returns from inside its first iteration that finds a server
stop_server(srv) ==
    IF \E i \in Slots : srv[i] # "null"
    THEN {CHOOSE i \in Slots : srv[i] # "null" /\ \A j \in Slots : srv[j] # "null" => i <= j}
    ELSE {}

\* ------------------------------------------------------------ client cache
\* variant: every verb in the one table 0
get_rpc_client_idx_one_class(verb) == 0

\* get_rpc_client_idx
get_rpc_client_idx(verb) == IF verb \in Class1Verbs THEN 1 ELSE 0

\* the must_encrypt lambda of get_rpc_client: its body is commented out but
\* for the last statement, return false
must_encrypt(id) == FALSE

\* the rpc_protocol_client_wrapper get_rpc_client makes for the peer id: the
\* remote port and whether the credentials are handed to it
NewConn(id) ==
    [error |-> FALSE, stop |-> "none", stop_calls |-> 0, addr |-> id.addr,
     port |-> IF must_encrypt(id) THEN "ssl_port" ELSE "port",
     credentials |-> must_encrypt(id)]

\* rpc_protocol_client_wrapper::stop() called on every connection of cs
StopConns(cn, cs) ==
    [k \in DOMAIN cn |->
        IF k \in cs
        THEN [cn[k] EXCEPT !.stop = IF @ = "none" THEN "pending" ELSE @,
                           !.stop_calls = @ + 1]
        ELSE cn[k]]

\* variant: an equality that compares the cpu id too
msg_addr_eq_with_cpu(x, y) == x.addr = y.addr /\ x.cpu_id = y.cpu_id

\* operator==(const msg_addr&, const msg_addr&): the cpu id is ignored
msg_addr_eq(x, y) == x.addr = y.addr

\* clients_map::find(id) on the table idx
Find(cl, idx, id) == {e \in cl : e.idx = idx /\ msg_addr_eq(e.id, id)}

\* variant: the test of _stopping left out
remove_rpc_client_one_while_stopping(S, idx, id, dead_only) ==
    LET hit == {e \in Find(S.clients, idx, id) : ~dead_only \/ S.conns[e.c].error}
    IN  [clients |-> S.clients \ hit,
         conns |-> StopConns(S.conns, {e.c : e \in hit})]

\* messaging_service::remove_rpc_client_one on the state S = [clients, conns]
remove_rpc_client_one(S, idx, id, dead_only) ==
    IF stopping
    THEN S
    ELSE LET hit == {e \in Find(S.clients, idx, id) : ~dead_only \/ S.conns[e.c].error}
         IN  [clients |-> S.clients \ hit,
              conns |-> StopConns(S.conns, {e.c : e \in hit})]

\* variant: the entry is removed whether or not it is in error
remove_error_rpc_client_any(S, verb, id) ==
    remove_rpc_client_one(S, get_rpc_client_idx(verb), id, FALSE)

\* messaging_service::remove_error_rpc_client
remove_error_rpc_client(S, verb, id) ==
    remove_rpc_client_one(S, get_rpc_client_idx(verb), id, TRUE)

\* variant: the loop stops after the first table
remove_rpc_client_first_table(S, id) == remove_rpc_client_one(S, 0, id, FALSE)

\* messaging_service::remove_rpc_client: the loop over both tables
remove_rpc_client(S, id) ==
    remove_rpc_client_one(remove_rpc_client_one(S, 0, id, FALSE), 1, id, FALSE)

\* std::unordered_map::emplace: inserts only when the key is absent
emplace(cl, idx, id, c) ==
    IF Find(cl, idx, id) = {} THEN cl \cup {[idx |-> idx, id |-> id, c |-> c]} ELSE cl

\* variant: the connection made is returned but not put in the table
get_rpc_client_without_emplace(S, verb, id) ==
    LET idx == get_rpc_client_idx(verb)
        it == Find(S.clients, idx, id)
    IN  IF it # {} /\ ~S.conns[(CHOOSE e \in it : TRUE).c].error
        THEN [clients |-> S.clients, conns |-> S.conns,
              ret |-> (CHOOSE e \in it : TRUE).c, failed_assert |-> stopping]
        ELSE LET S1 == IF it # {} THEN remove_error_rpc_client(S, verb, id) ELSE S
             IN  [clients |-> S1.clients,
                  conns |-> Append(S1.conns, NewConn(id)),
                  ret |-> Len(S1.conns) + 1,
                  failed_assert |-> stopping]

\* variant: get_rpc_client without the test of c->error()
get_rpc_client_no_error_check(S, verb, id) ==
    LET idx == get_rpc_client_idx(verb)
        it == Find(S.clients, idx, id)
        new == Len(S.conns) + 1
    IN  IF it # {}
        THEN [clients |-> S.clients, conns |-> S.conns,
              ret |-> (CHOOSE e \in it : TRUE).c, failed_assert |-> stopping]
        ELSE [clients |-> emplace(S.clients, idx, id, new),
              conns |-> Append(S.conns, NewConn(id)),
              ret |-> new, failed_assert |-> stopping]

\* messaging_service::get_rpc_client on S = [clients, conns]; ret is the
\* connection returned, failed_assert the outcome of assert(!_stopping)
get_rpc_client(S, verb, id) ==
    LET idx == get_rpc_client_idx(verb)
        it == Find(S.clients, idx, id)
    IN  IF it # {} /\ ~S.conns[(CHOOSE e \in it : TRUE).c].error
        THEN [clients |-> S.clients, conns |-> S.conns,
              ret |-> (CHOOSE e \in it : TRUE).c, failed_assert |-> stopping]
        ELSE LET S1 == IF it # {} THEN remove_error_rpc_client(S, verb, id) ELSE S
                 new == Len(S1.conns) + 1
                 cl2 == emplace(S1.clients, idx, id, new)
             IN  [clients |-> cl2,
                  conns |-> Append(S1.conns, NewConn(id)),
                  ret |-> (CHOOSE e \in Find(cl2, idx, id) : TRUE).c,
                  failed_assert |-> stopping]

Cur == [clients |-> clients, conns |-> conns]


\* ------------------------------------------------------------ construction
Configs ==
    [encrypt_what : EncryptWhat, sltba : BOOLEAN, bc_differs : BOOLEAN,
     credentials : BOOLEAN, listen_now : BOOLEAN]

\* the arguments the three-argument constructor passes on, listen_now = false
DeferredListen ==
    [encrypt_what |-> "none", sltba |-> FALSE, bc_differs |-> FALSE,
     credentials |-> FALSE, listen_now |-> FALSE]

\* messaging_service::messaging_service
Construct(args) ==
    /\ cfg = args
    /\ server = IF cfg.listen_now THEN start_listen_plain(NoServers) ELSE NoServers
    /\ server_tls = IF cfg.listen_now THEN start_listen_tls(NoServers) ELSE NoServers
    /\ stopping = FALSE
    /\ stop_future = "none"
    /\ stop_waits = [server |-> {}, tls |-> {}, conns |-> {}]
    /\ clients = {}
    /\ conns = <<>>
    /\ dropped = [v \in Verbs |-> 0]
    /\ sends = <<>>
    /\ retries = <<>>
    /\ known = Addrs
    /\ got = <<>>

\* messaging_service::start_listen
StartListen ==
    /\ server' = start_listen_plain(server)
    /\ server_tls' = start_listen_tls(server_tls)
    /\ UNCHANGED <<cfg, got, stopping, stop_future, stop_waits, clients, conns,
                   dropped, sends, retries, known>>

\* ---------------------------------------------------------------- shutdown
\* variant: stop_client stops every connection ever made, evicted or not
EveryConn == DOMAIN conns

\* the connections stop_client walks: those in the two tables
Cached == {e.c : e \in clients}

SetStopping(srv, which) ==
    [i \in Slots |-> IF i \in which /\ srv[i] = "listening" THEN "stopping" ELSE srv[i]]

\* messaging_service::stop with stop_nontls_server, stop_tls_server, stop_client
Stop ==
    /\ stop_future = "none"
    /\ stopping' = TRUE
    /\ server' = SetStopping(server, stop_server(server))
    /\ server_tls' = SetStopping(server_tls, stop_server(server_tls))
    /\ conns' = StopConns(conns, Cached)
    /\ stop_waits' = [server |-> stop_server(server), tls |-> stop_server(server_tls),
                      conns |-> Cached]
    /\ stop_future' = "pending"
    /\ UNCHANGED <<cfg, got, clients, dropped, sends, retries, known>>

\* the when_all of stop() resolves once the three futures it holds resolved
StopResolve ==
    /\ stop_future = "pending"
    /\ \A i \in stop_waits.server : server[i] = "stopped"
    /\ \A i \in stop_waits.tls : server_tls[i] = "stopped"
    /\ \A c \in stop_waits.conns : conns[c].stop = "resolved"
    /\ stop_future' = "resolved"
    /\ UNCHANGED <<cfg, got, server, server_tls, stopping, stop_waits, clients, conns,
                   dropped, sends, retries, known>>

\* the transport resolves the stop() of a listener
ServerStopped(i) ==
    /\ server[i] = "stopping"
    /\ server' = [server EXCEPT ![i] = "stopped"]
    /\ UNCHANGED <<cfg, got, server_tls, stopping, stop_future, stop_waits, clients, conns,
                   dropped, sends, retries, known>>

TlsServerStopped(i) ==
    /\ server_tls[i] = "stopping"
    /\ server_tls' = [server_tls EXCEPT ![i] = "stopped"]
    /\ UNCHANGED <<cfg, got, server, stopping, stop_future, stop_waits, clients, conns,
                   dropped, sends, retries, known>>

\* the transport resolves the stop() of a connection, which it does after it
\* failed the requests still outstanding on it
ConnStopped(c) ==
    /\ c \in DOMAIN conns
    /\ conns[c].stop = "pending"
    /\ \A i \in DOMAIN sends : sends[i].st = "inflight" => sends[i].c # c
    /\ conns' = [conns EXCEPT ![c].stop = "resolved"]
    /\ UNCHANGED <<cfg, got, server, server_tls, stopping, stop_future, stop_waits, clients,
                   dropped, sends, retries, known>>

\* the transport sets the error flag of a connection (a fatal i/o failure)
TransportError(c) ==
    /\ c \in DOMAIN conns
    /\ ~conns[c].error
    /\ conns[c].stop # "resolved"
    /\ conns' = [conns EXCEPT ![c].error = TRUE]
    /\ UNCHANGED <<cfg, got, server, server_tls, stopping, stop_future, stop_waits, clients,
                   dropped, sends, retries, known>>

\* the gossiper forgets an endpoint
RemoveEndpoint(a) ==
    /\ a \in known
    /\ known' = known \ {a}
    /\ UNCHANGED <<cfg, got, server, server_tls, stopping, stop_future, stop_waits, clients,
                   conns, dropped, sends, retries>>

\* ------------------------------------------------------- cache, from outside
RemoveErrorClient(verb, id) ==
    /\ LET S == remove_error_rpc_client(Cur, verb, id)
       IN  clients' = S.clients /\ conns' = S.conns
    /\ UNCHANGED <<cfg, got, server, server_tls, stopping, stop_future, stop_waits,
                   dropped, sends, retries, known>>

RemoveClient(id) ==
    /\ LET S == remove_rpc_client(Cur, id)
       IN  clients' = S.clients /\ conns' = S.conns
    /\ UNCHANGED <<cfg, got, server, server_tls, stopping, stop_future, stop_waits,
                   dropped, sends, retries, known>>

\* get_rpc_client called from outside the send primitives; a call on a
\* stopping service fails assert(!_stopping) and ends the process
GetClient(verb, id) ==
    /\ ~stopping
    /\ Len(got) < MaxGets
    /\ LET g == get_rpc_client(Cur, verb, id)
       IN  /\ Len(g.conns) <= MaxConn
           /\ clients' = g.clients
           /\ conns' = g.conns
           /\ got' = Append(got, [verb |-> verb, id |-> id, c |-> g.ret])
    /\ UNCHANGED <<cfg, server, server_tls, stopping, stop_future, stop_waits,
                   dropped, sends, retries, known>>


\* ----------------------------------------------------------- send pipeline
\* variant: the test of is_stopping() left out
is_stopping_never == FALSE

\* messaging_service::is_stopping, as send_message and the retry loop read it
is_stopping == stopping

\* variant: a counter that is not incremented
increment_dropped_messages_noop(d, verb) == d

\* messaging_service::increment_dropped_messages
increment_dropped_messages(d, verb) == [d EXCEPT ![verb] = @ + 1]

\* a future send_message / send_message_timeout returned: its verb and peer,
\* whether the request was handed to the transport, the connection its
\* continuation holds (0: none), what the transport resolved the request
\* with, the state of the future the caller holds, whether it is an
\* attempt of the retry call, and whether the assert(!_stopping) of the
\* get_rpc_client it called failed
SendFuture(verb, id, sent, c, st, call) ==
    [verb |-> verb, id |-> id, sent |-> sent, c |-> c, raw |-> "none", st |-> st,
     call |-> call, failed_assert |-> FALSE]

\* variant: a send refused while stopping counted as a dropped message
send_message_counting(T, verb, id, call) ==
    IF is_stopping
    THEN [clients |-> T.clients, conns |-> T.conns,
          sends |-> Append(T.sends, SendFuture(verb, id, FALSE, 0, "closed_error", call)),
          dropped |-> increment_dropped_messages(T.dropped, verb)]
    ELSE LET g == get_rpc_client(T, verb, id)
         IN  [clients |-> g.clients, conns |-> g.conns,
              sends |-> Append(T.sends,
                           [SendFuture(verb, id, TRUE, g.ret, "inflight", call)
                               EXCEPT !.failed_assert = g.failed_assert]),
              dropped |-> T.dropped]

\* variant: get_rpc_client called without the test of is_stopping() before it
send_message_unchecked(T, verb, id, call) ==
    LET g == get_rpc_client(T, verb, id)
    IN  [clients |-> g.clients, conns |-> g.conns,
         sends |-> Append(T.sends,
                      [SendFuture(verb, id, TRUE, g.ret, "inflight", call)
                          EXCEPT !.failed_assert = g.failed_assert]),
         dropped |-> T.dropped]

\* the entry of send_message / send_message_timeout, up to rpc_handler(...):
\* T = [clients, conns, sends, dropped]
send_message(T, verb, id, call) ==
    IF is_stopping
    THEN [clients |-> T.clients, conns |-> T.conns,
          sends |-> Append(T.sends, SendFuture(verb, id, FALSE, 0, "closed_error", call)),
          dropped |-> T.dropped]
    ELSE LET g == get_rpc_client(T, verb, id)
         IN  [clients |-> g.clients, conns |-> g.conns,
              sends |-> Append(T.sends,
                           [SendFuture(verb, id, TRUE, g.ret, "inflight", call)
                               EXCEPT !.failed_assert = g.failed_assert]),
              dropped |-> T.dropped]

\* variant: on closed_error the entry of the key is removed, in error or not
send_continuation_evicts_healthy(T, verb, id, res) ==
    IF res \in Failures
    THEN LET d == increment_dropped_messages(T.dropped, verb)
         IN  IF res = "closed_error"
             THEN LET S == remove_rpc_client_one(T, get_rpc_client_idx(verb), id, FALSE)
                  IN  [clients |-> S.clients, conns |-> S.conns, dropped |-> d,
                       out |-> res]
             ELSE [clients |-> T.clients, conns |-> T.conns, dropped |-> d, out |-> res]
    ELSE [clients |-> T.clients, conns |-> T.conns, dropped |-> T.dropped, out |-> res]

\* variant: remove_error_rpc_client called on every failure
send_continuation_evicts_on_any(T, verb, id, res) ==
    IF res \in Failures
    THEN LET S == remove_error_rpc_client(T, verb, id)
         IN  [clients |-> S.clients, conns |-> S.conns,
              dropped |-> increment_dropped_messages(T.dropped, verb), out |-> res]
    ELSE [clients |-> T.clients, conns |-> T.conns, dropped |-> T.dropped, out |-> res]

\* the then_wrapped continuation of send_message / send_message_timeout on a
\* future the transport resolved with res: T = [clients, conns, dropped];
\* out is what the future handed to the caller resolves with
send_continuation(T, verb, id, res) ==
    IF res \in Failures
    THEN LET d == increment_dropped_messages(T.dropped, verb)
         IN  IF res = "closed_error"
             THEN LET S == remove_error_rpc_client(T, verb, id)
                  IN  [clients |-> S.clients, conns |-> S.conns, dropped |-> d,
                       out |-> res]
             ELSE [clients |-> T.clients, conns |-> T.conns, dropped |-> d, out |-> res]
    ELSE [clients |-> T.clients, conns |-> T.conns, dropped |-> T.dropped, out |-> res]

CurT == [clients |-> clients, conns |-> conns, sends |-> sends, dropped |-> dropped]

\* results the transport can give a request: a no_wait request of
\* send_message_oneway resolves once it is handed over or the transport closed;
\* a request with a timeout waits for the reply
Results(verb) ==
    IF verb \in TimeoutVerbs
    THEN {"ok", "closed_error", "timeout_error", "server_error"}
    ELSE {"ok", "closed_error"}

AllResults == {"ok", "closed_error", "timeout_error", "server_error"}

\* send_gossip_echo (send_message_timeout) and send_gossip_digest_syn,
\* send_gossip_digest_ack (send_message_oneway), called from outside
Send(verb, id) ==
    /\ Len(sends) < MaxSends
    /\ LET T == send_message(CurT, verb, id, FALSE)
       IN  /\ Len(T.conns) <= MaxConn
           /\ clients' = T.clients
           /\ conns' = T.conns
           /\ sends' = T.sends
           /\ dropped' = T.dropped
    /\ UNCHANGED <<cfg, got, server, server_tls, stopping, stop_future, stop_waits,
                   retries, known>>

\* the transport resolves the future of request i and its continuation runs;
\* the continuation lets go of the connection
CompleteSend(i, res) ==
    /\ i \in DOMAIN sends
    /\ sends[i].st = "inflight"
    /\ res \in Results(sends[i].verb)
    /\ LET T == send_continuation(CurT, sends[i].verb, sends[i].id, res)
       IN  /\ clients' = T.clients
           /\ conns' = T.conns
           /\ dropped' = T.dropped
           /\ sends' = [sends EXCEPT ![i].raw = res, ![i].st = T.out, ![i].c = 0]
    /\ UNCHANGED <<cfg, got, server, server_tls, stopping, stop_future, stop_waits,
                   retries, known>>

\* ------------------------------------------------------------- retry loop
\* a call of send_message_timeout_and_retry: retry is the do_with counter,
\* pc the place of the loop, cur the request of the running attempt
RetryCall(verb, id, n) ==
    [verb |-> verb, id |-> id, nr_retry |-> n, retry |-> n, pc |-> "attempt",
     result |-> "none", cur |-> 0, sleeps |-> 0]

Finish(r, res) == [r EXCEPT !.pc = "done", !.result = res]

\* variant: timeout_error retried like closed_error
retry_continuation_retries_timeout(r, st) ==
    IF st = "ok" THEN Finish(r, "ok")
    ELSE IF st \in {"closed_error", "timeout_error"}
    THEN LET q == [r EXCEPT !.retry = @ - 1]
         IN  IF q.retry = 0 THEN Finish(q, st)
             ELSE IF is_stopping THEN Finish(q, st)
             ELSE IF q.id.addr \notin known THEN Finish(q, st)
             ELSE [q EXCEPT !.pc = "sleeping", !.sleeps = @ + 1]
    ELSE Finish(r, st)

\* variant: the gossiper is not asked whether the peer is still known
retry_continuation_ignores_known(r, st) ==
    IF st = "ok" THEN Finish(r, "ok")
    ELSE IF st = "timeout_error" THEN Finish(r, "timeout_error")
    ELSE IF st = "closed_error"
    THEN LET q == [r EXCEPT !.retry = @ - 1]
         IN  IF q.retry = 0 THEN Finish(q, "closed_error")
             ELSE IF is_stopping THEN Finish(q, "closed_error")
             ELSE [q EXCEPT !.pc = "sleeping", !.sleeps = @ + 1]
    ELSE Finish(r, st)

\* the continuation of one attempt (the then_wrapped inside repeat_until_value)
\* on an attempt that resolved with st
retry_continuation(r, st) ==
    IF st = "ok" THEN Finish(r, "ok")
    ELSE IF st = "timeout_error" THEN Finish(r, "timeout_error")
    ELSE IF st = "closed_error"
    THEN LET q == [r EXCEPT !.retry = @ - 1]
         IN  IF q.retry = 0 THEN Finish(q, "closed_error")
             ELSE IF is_stopping THEN Finish(q, "closed_error")
             ELSE IF q.id.addr \notin known THEN Finish(q, "closed_error")
             ELSE [q EXCEPT !.pc = "sleeping", !.sleeps = @ + 1]
    ELSE Finish(r, st)

\* one turn of repeat_until_value for the call r: send_message_timeout is
\* called; a future it returns already failed runs the continuation at once
Attempt(r) ==
    /\ Len(sends) < MaxSends
    /\ LET T == send_message(CurT, r.verb, r.id, TRUE)
           n == Len(T.sends)
           q == [r EXCEPT !.pc = "attempt", !.cur = n]
       IN  /\ Len(T.conns) <= MaxConn
           /\ clients' = T.clients
           /\ conns' = T.conns
           /\ sends' = T.sends
           /\ dropped' = T.dropped
           /\ retries' = IF T.sends[n].st = "inflight"
                         THEN <<q>>
                         ELSE <<retry_continuation(q, T.sends[n].st)>>

\* send_message_timeout_and_retry called from outside
SendRetry(verb, id, n) ==
    /\ retries = <<>>
    /\ Attempt(RetryCall(verb, id, n))
    /\ UNCHANGED <<cfg, got, server, server_tls, stopping, stop_future, stop_waits, known>>

\* the attempt of the call resolved and the retry continuation runs
RetryContinue(k) ==
    /\ k \in DOMAIN retries
    /\ retries[k].pc = "attempt"
    /\ sends[retries[k].cur].st # "inflight"
    /\ retries' = [retries EXCEPT ![k] = retry_continuation(@, sends[retries[k].cur].st)]
    /\ UNCHANGED <<cfg, got, server, server_tls, stopping, stop_future, stop_waits, clients,
                   conns, dropped, sends, known>>

\* sleep_abortable(wait) elapsed: the loop takes its next turn
SleepDone(k) ==
    /\ k \in DOMAIN retries
    /\ retries[k].pc = "sleeping"
    /\ Attempt(retries[k])
    /\ UNCHANGED <<cfg, got, server, server_tls, stopping, stop_future, stop_waits, known>>

\* sleep_abortable(wait) is aborted by the reactor's abort source
SleepAbort(k) ==
    /\ k \in DOMAIN retries
    /\ retries[k].pc = "sleeping"
    /\ retries' = [retries EXCEPT ![k] = Finish(@, "sleep_aborted")]
    /\ UNCHANGED <<cfg, got, server, server_tls, stopping, stop_future, stop_waits, clients,
                   conns, dropped, sends, known>>

\* ---------------------------------------------------------- specifications
\* the one call of send_message_timeout_and_retry a run follows
Calls == {1}

\* the cache and the send primitives towards one peer seen from two shards,
\* and the start of shutdown, on a service that was told not to listen yet
CacheVerbs == {"GOSSIP_ECHO", "GOSSIP_DIGEST_ACK"}

Init == Construct(DeferredListen)

Next ==
    \/ Stop
    \/ \E c \in 1..MaxConn : TransportError(c)
    \/ \E v \in CacheVerbs : RemoveErrorClient(v, P1)
    \/ RemoveClient(P1)
    \/ \E v \in CacheVerbs, id \in P1Ids : Send(v, id)
    \/ \E i \in 1..MaxSends, res \in AllResults : CompleteSend(i, res)

Spec == Init /\ [][Next]_vars

\* the listeners and shutdown to its end, over every combination of
\* constructor arguments, with one connection that can be evicted
InitListen == \E args \in Configs : Construct(args)

NextListen ==
    \/ StartListen
    \/ Stop
    \/ StopResolve
    \/ \E i \in Slots : ServerStopped(i)
    \/ \E i \in Slots : TlsServerStopped(i)
    \/ \E c \in 1..MaxConn : ConnStopped(c)
    \/ Send("GOSSIP_ECHO", P1)
    \/ \E i \in 1..MaxSends, res \in {"ok", "closed_error"} : CompleteSend(i, res)
    \/ RemoveClient(P1)

SpecListen == InitListen /\ [][NextListen]_vars

\* the retry loop beside the other send primitives
RetryVerbs == {"GOSSIP_ECHO"}

NextRetry ==
    \/ Stop
    \/ \E c \in 1..MaxConn : TransportError(c)
    \/ RemoveEndpoint("p1")
    \/ \E v \in CacheVerbs : Send(v, P1)
    \/ \E i \in 1..MaxSends, res \in AllResults : CompleteSend(i, res)
    \/ \E v \in RetryVerbs, n \in 0..MaxRetry : SendRetry(v, P1, n)
    \/ \E k \in Calls : RetryContinue(k)
    \/ \E k \in Calls : SleepDone(k)
    \/ \E k \in Calls : SleepAbort(k)

SpecRetry == Init /\ [][NextRetry]_vars

\* the cache tables under calls from outside the send primitives, for two
\* peers and verbs of both classes
NextCache ==
    \/ Stop
    \/ \E c \in 1..MaxConn : TransportError(c)
    \/ \E v \in Verbs, id \in Peers : GetClient(v, id)
    \/ \E v \in Verbs, id \in Peers : RemoveErrorClient(v, id)
    \/ \E id \in Peers : RemoveClient(id)

SpecCache == Init /\ [][NextCache]_vars


\* ------------------------------------------------------------------ claims
\* C1: after stop() resolved, every connection the service ever created has
\* had its own stop() resolved, those evicted from the cache before stop()
\* with their stop() still in flight included.
C1_StopAwaitsEveryConnection ==
    stop_future = "resolved" => \A c \in DOMAIN conns : conns[c].stop = "resolved"

\* C2: stop() stops every listener that existed when it was called, both
\* plain slots and both TLS slots, and resolves only after all those stops
\* and the stops of the cached connections resolved.  (start_listen fills
\* slot 1 only together with slot 0, so a slot 0 that is no longer listening
\* tells that the listeners of its pair were there when stop() ran.)
C2_StopStopsEveryListener ==
    stop_future = "resolved" =>
        /\ \A i \in Slots : (server[0] \notin {"null", "listening"} /\ server[i] # "null")
                                => server[i] = "stopped"
        /\ \A i \in Slots : (server_tls[0] \notin {"null", "listening"} /\ server_tls[i] # "null")
                                => server_tls[i] = "stopped"
        /\ \A e \in clients : conns[e.c].stop = "resolved"

\* C3: each cache table holds at most one connection per (verb class, peer).
C3_OneConnectionPerKey ==
    \A e1, e2 \in clients : (e1.idx = e2.idx /\ e1.id.addr = e2.id.addr) => e1 = e2

\* C3 witness: two requests went out for one key, the first connection was
\* evicted and a second one is cached for that key.
C3_Witness ==
    \E i, j \in DOMAIN sends :
        /\ i < j /\ sends[i].sent /\ sends[j].sent
        /\ sends[i].verb = sends[j].verb /\ sends[i].id.addr = sends[j].id.addr
        /\ \E c \in DOMAIN conns :
               /\ conns[c].stop # "none"
               /\ \E e \in Find(clients, get_rpc_client_idx(sends[i].verb), sends[i].id) :
                      e.c # c /\ sends[j].st = "inflight" /\ sends[j].c = e.c

\* the request a step hands to the transport, if it hands one
NewSends == {i \in DOMAIN sends' : i \notin DOMAIN sends}

\* C4: get_rpc_client never returns a connection in error: a cached entry in
\* error is removed and its stop() started before the new connection is
\* made, and the connection returned is a fresh one.
C4_NeverReturnsErrored ==
    [][\A i \in NewSends : sends'[i].sent =>
          LET c == sends'[i].c
              old == Find(clients, get_rpc_client_idx(sends'[i].verb), sends'[i].id)
          IN  /\ c \in DOMAIN conns'
              /\ ~conns'[c].error
              /\ \A e \in old : conns[e.c].error =>
                     /\ c # e.c
                     /\ c \notin DOMAIN conns
                     /\ e \notin clients'
                     /\ conns'[e.c].stop # "none"]_vars

\* C4 witness: a request is in flight on the connection cached for its key
\* while an older connection, in error, has been stopped.
C4_Witness ==
    \E i \in DOMAIN sends :
        /\ sends[i].st = "inflight"
        /\ \E e \in Find(clients, get_rpc_client_idx(sends[i].verb), sends[i].id) :
               /\ e.c = sends[i].c
               /\ ~conns[e.c].error
               /\ \E j \in DOMAIN sends :
                      /\ j < i /\ sends[j].st = "inflight" /\ sends[j].verb = sends[i].verb
                      /\ sends[j].c < e.c
                      /\ conns[sends[j].c].error
                      /\ conns[sends[j].c].stop = "pending"


\* C5: once stop() set _stopping, no connection is made, no entry is added
\* to a cache table and no request is handed to the transport, whichever
\* send primitive is called, the re-attempts of the retry loop included.
C5_NothingStartsOnceStopping ==
    [][stopping =>
          /\ Len(conns') = Len(conns)
          /\ clients' \subseteq clients
          /\ \A i \in NewSends : ~sends'[i].sent]_vars

\* C5 witness: the service is stopping and a re-attempt of the retry loop,
\* after its sleep, was refused.
C5_Witness ==
    /\ stopping
    /\ \E k \in DOMAIN retries :
           /\ retries[k].sleeps > 0
           /\ retries[k].pc = "done"
           /\ ~sends[retries[k].cur].sent

\* requests for verb v handed to the transport whose future failed
FailedRequests(v) ==
    {i \in DOMAIN sends : sends[i].verb = v /\ sends[i].sent /\ sends[i].st \in Failures}

\* futures for verb v the send primitives gave their callers that failed
FailedFutures(v) ==
    Cardinality({i \in DOMAIN sends :
                    sends[i].verb = v /\ ~sends[i].call /\ sends[i].st \in Failures})
    + Cardinality({k \in DOMAIN retries :
                    retries[k].verb = v /\ retries[k].result \in Failures \cup {"sleep_aborted"}})

\* C6 as stated: for every verb, the dropped counter equals the number of
\* futures returned by the send primitives that resolved with failure.
C6_DroppedCountsFailedFutures ==
    \A v \in Verbs : dropped[v] = FailedFutures(v)

\* C6 amended: for every verb, the dropped counter equals the number of
\* requests handed to the transport (each attempt of the retry loop on its
\* own) whose future resolved with failure; a send refused because the
\* service is stopping is not counted; the counter never decreases.
C6_DroppedCountsFailedRequests ==
    /\ [](\A v \in Verbs : dropped[v] = Cardinality(FailedRequests(v)))
    /\ [][\A v \in Verbs : dropped'[v] >= dropped[v]]_vars

\* C6 witness: a request failed and was counted, and a send refused while
\* stopping failed and was not.
C6_Witness ==
    \E v \in Verbs :
        /\ dropped[v] = 1
        /\ \E i \in DOMAIN sends : sends[i].verb = v /\ ~sends[i].sent
                                   /\ sends[i].st = "closed_error"

\* C7: a send issued while the service is stopping returns a future already
\* failed with closed_error and changes neither the cache tables, nor the
\* dropped counters, nor the connections.
C7_StoppingSendHasNoEffect ==
    [][(stopping /\ (Len(sends') > Len(sends) \/ Len(retries') > Len(retries))) =>
          /\ \A i \in NewSends : ~sends'[i].sent /\ sends'[i].st = "closed_error"
          /\ \A k \in DOMAIN retries' : k \notin DOMAIN retries =>
                 retries'[k].pc = "done" /\ retries'[k].result = "closed_error"
          /\ clients' = clients
          /\ conns' = conns
          /\ dropped' = dropped]_vars

\* C7 witness: the service is stopping, a send called from outside and a
\* retry call were both refused with closed_error.
C7_Witness ==
    /\ stopping
    /\ \E i \in DOMAIN sends : ~sends[i].sent /\ ~sends[i].call /\ sends[i].st = "closed_error"
    /\ \E k \in DOMAIN retries :
           /\ retries[k].sleeps = 0
           /\ retries[k].result = "closed_error"
           /\ ~sends[retries[k].cur].sent

\* C8: a request that fails with closed_error has remove_error_rpc_client
\* called for its verb and peer and gives its caller the same closed_error;
\* a request that fails with another error gives its caller that error and
\* leaves the cache alone.
C8_OnlyClosedErrorEvicts ==
    [][\A i \in DOMAIN sends :
          (sends[i].st = "inflight" /\ sends'[i].st # "inflight") =>
              LET res == sends'[i].raw
                  S == remove_error_rpc_client(Cur, sends[i].verb, sends[i].id)
              IN  /\ sends'[i].st = res
                  /\ res # "closed_error" => (clients' = clients /\ conns' = conns)
                  /\ res = "closed_error" => (clients' = S.clients /\ conns' = S.conns)]_vars

\* C8 witness: a request failed with closed_error on a connection in error,
\* which left the cache and is being stopped, while the service is running.
C8_Witness ==
    /\ ~stopping
    /\ \E i \in DOMAIN sends :
           /\ sends[i].sent /\ sends[i].st = "closed_error"
           /\ Find(clients, get_rpc_client_idx(sends[i].verb), sends[i].id) = {}
    /\ \E c \in DOMAIN conns : conns[c].error /\ conns[c].stop = "pending"
    /\ \E j \in DOMAIN sends : sends[j].st = "timeout_error"

\* attempts of the retry call that failed with closed_error and whose
\* continuation has run
HandledClosed(k) ==
    Cardinality({i \in DOMAIN sends :
                    /\ sends[i].call
                    /\ sends[i].st = "closed_error"
                    /\ ~(retries[k].pc = "attempt" /\ retries[k].cur = i)})

\* C9: retry law: when the first k < nr_retry attempts fail with
\* closed_error and the next one succeeds, the call succeeds after exactly k
\* retry sleeps; when nr_retry or more attempts in a row fail with
\* closed_error, the call fails with closed_error.
C9_RetryLaw ==
    \A k \in DOMAIN retries :
        LET r == retries[k]
        IN  /\ (r.pc = "done" /\ sends[r.cur].st = "ok") =>
                   (r.result = "ok" /\ r.sleeps = HandledClosed(k))
            /\ (HandledClosed(k) >= 1 /\ HandledClosed(k) >= r.nr_retry) =>
                   (r.pc = "done" /\ r.result = "closed_error")

\* the retry law for calls with nr_retry >= 1
RetryLawFromOne ==
    \A k \in DOMAIN retries :
        LET r == retries[k]
        IN  r.nr_retry >= 1 =>
            /\ (r.pc = "done" /\ sends[r.cur].st = "ok") =>
                   (r.result = "ok" /\ r.sleeps = HandledClosed(k)
                    /\ HandledClosed(k) < r.nr_retry)
            /\ HandledClosed(k) >= r.nr_retry =>
                   (r.pc = "done" /\ r.result = "closed_error")
            /\ (r.pc = "sleeping") => (r.sleeps = HandledClosed(k)
                                        /\ HandledClosed(k) < r.nr_retry)

\* C10: in the retry loop an attempt that fails with timeout_error ends the
\* call at once with timeout_error: no other attempt, no sleep, the counter
\* of attempts left not decremented.
C10_TimeoutEndsRetry ==
    [][\A k \in DOMAIN retries :
          LET r == retries[k]
          IN  /\ (r.pc = "attempt" /\ sends[r.cur].st = "timeout_error"
                    /\ retries'[k] # r) =>
                     /\ retries'[k] = [r EXCEPT !.pc = "done", !.result = "timeout_error"]
                     /\ sends' = sends
              /\ (r.pc = "done" /\ r.result = "timeout_error") =>
                     (retries'[k] = r /\ \A i \in NewSends : ~sends'[i].call)]_vars

\* C10 witness: the call ended with timeout_error on its second attempt, after
\* one sleep, with attempts left, the service running and the peer known.
C10_Witness ==
    \E k \in DOMAIN retries :
        /\ retries[k].result = "timeout_error"
        /\ retries[k].sleeps = 1
        /\ retries[k].retry >= 1
        /\ ~stopping
        /\ retries[k].id.addr \in known

\* C11: in the retry loop, an attempt that fails with closed_error while the
\* gossiper no longer knows the peer ends the call with closed_error, with no
\* sleep and no other attempt, whatever the number of attempts left; a peer
\* forgotten during the first sleep makes the call fail on its second attempt.
C11_UnknownPeerEndsRetry ==
    [][\A k \in DOMAIN retries' :
          LET q == retries'[k]
              fresh == k \notin DOMAIN retries
              ran == IF fresh THEN q.pc # "attempt"
                     ELSE \/ retries[k].pc = "attempt" /\ q # retries[k]
                          \/ retries[k].pc = "sleeping" /\ q.cur # retries[k].cur
                                /\ q.pc # "attempt"
          IN  /\ (ran /\ q.id.addr \notin known /\ sends'[q.cur].st = "closed_error") =>
                     /\ q.pc = "done"
                     /\ q.result = "closed_error"
                     /\ q.sleeps = (IF fresh THEN 0 ELSE retries[k].sleeps)
              /\ (~fresh /\ retries[k].pc = "done") =>
                     (q = retries[k] /\ \A i \in NewSends : ~sends'[i].call)]_vars

\* C11 witness: the peer was forgotten during the first sleep and the call
\* failed with closed_error on its second attempt, which went to the
\* transport, with attempts left and the service running.
C11_Witness ==
    \E k \in DOMAIN retries :
        /\ retries[k].pc = "done"
        /\ retries[k].result = "closed_error"
        /\ retries[k].sleeps = 1
        /\ retries[k].retry >= 1
        /\ retries[k].cur = 2
        /\ sends[2].sent /\ sends[1].call
        /\ ~stopping
        /\ retries[k].id.addr \notin known

\* C12: a call of the retry loop that is in its sleep when stop() is called
\* has the sleep aborted by stop(): the wait does not elapse, the call ends
\* with the abort cause and issues no other attempt.
C12_StopAbortsRetrySleep ==
    [][\A k \in DOMAIN retries :
          (stopping /\ retries[k].pc = "sleeping") =>
              /\ retries'[k] \in {retries[k], Finish(retries[k], "sleep_aborted")}
              /\ \A i \in NewSends : ~sends'[i].call]_vars

\* C13: stop() resolves only after every future of a send that was in flight
\* when stop() was called has resolved.  (Once the service is stopping a send
\* is refused with a future already failed, so a future in flight in a
\* stopping service was in flight when stop() was called.)
C13_StopDrainsSends ==
    stop_future = "resolved" => \A i \in DOMAIN sends : sends[i].st # "inflight"

C15_CacheHoldsReturned ==
    [][Len(got') > Len(got) =>
          LET g == got'[Len(got')]
              k == IF g.verb \in Class1Verbs THEN 1 ELSE 0
              hit == {e \in clients' : e.idx = k /\ e.id.addr = g.id.addr}
          IN  /\ hit # {}
              /\ \A e \in hit : e.c = g.c
              /\ g.c \in DOMAIN conns']_vars

\* C15 witness: a call reused the connection an earlier call had made, and a
\* later call for the same key made another one after the first went into
\* error; the table holds the one returned last.
C15_Witness ==
    /\ Len(got) = 3
    /\ got[1].verb = got[2].verb /\ got[2].verb = got[3].verb
    /\ got[1].id = got[2].id /\ got[2].id = got[3].id
    /\ got[1].c = got[2].c
    /\ got[3].c # got[1].c
    /\ conns[got[1].c].error
    /\ \E e \in clients : e.id.addr = got[3].id.addr /\ e.c = got[3].c

\* C16: remove_error_rpc_client(verb, id) removes nothing but the entry of
\* the peer in the table of the verb's class, and that only when its
\* connection is in error; a healthy entry of that key, the entries of the
\* other table and the entries of other peers stay, and no connection but the
\* removed entry's is touched.
C16_RemoveErrorClientFrame ==
    [][\A v \in Verbs, id \in Peers :
          RemoveErrorClient(v, id) =>
              LET k == IF v \in Class1Verbs THEN 1 ELSE 0
                  gone == clients \ clients'
              IN  /\ clients' \subseteq clients
                  /\ \A e \in gone : e.idx = k /\ e.id.addr = id.addr /\ conns[e.c].error
                  /\ \A c \in DOMAIN conns :
                         c \notin {e.c : e \in gone} => conns'[c] = conns[c]]_vars

\* C16 witness: the class 1 entry of p1, in error, was removed and is being
\* stopped, while the healthy class 0 entry of p1 and the class 1 entry of
\* p2, itself in error, are still in their tables, untouched.
C16_Witness ==
    /\ ~stopping
    /\ Len(got) = 3
    /\ got[1].verb = "GOSSIP_ECHO" /\ got[1].id = P1 /\ got[1].c = 1
    /\ got[2].verb = "GOSSIP_DIGEST_ACK" /\ got[2].id = P1 /\ got[2].c = 2
    /\ got[3].verb = "GOSSIP_ECHO" /\ got[3].id = P2 /\ got[3].c = 3
    /\ conns[1].error /\ conns[1].stop = "pending"
    /\ ~conns[2].error /\ conns[2].stop = "none"
    /\ conns[3].error /\ conns[3].stop = "none"
    /\ clients = {[idx |-> 0, id |-> P1, c |-> 2], [idx |-> 1, id |-> P2, c |-> 3]}

\* C17 as stated: in whatever state the service is, after
\* remove_rpc_client(id) returns no table has an entry for the peer.
C17_RemoveClientRemovesAlways ==
    \A id \in Peers :
        \A e \in remove_rpc_client(Cur, id).clients : e.id.addr # id.addr

\* C17 amended: on a service that is not stopping, after remove_rpc_client(id)
\* returns no table has an entry for the peer, whether the entries were
\* healthy or in error, every connection so removed has had stop() called and
\* the entries of other peers are kept; on a stopping service the call
\* changes nothing.
C17_RemoveClientUnlessStopping ==
    \A id \in Peers :
        LET S == remove_rpc_client(Cur, id)
            mine == {e \in clients : e.id.addr = id.addr}
        IN  IF stopping
            THEN S = Cur
            ELSE /\ S.clients = clients \ mine
                 /\ \A e \in mine : S.conns[e.c].stop # "none"

\* C17 witness: both entries of p1, one in error and one healthy, were
\* removed by remove_rpc_client and are being stopped, on a running service;
\* the entry of p2 is still there.
C17_Witness ==
    /\ ~stopping
    /\ Len(got) = 3
    /\ got[1].verb = "GOSSIP_ECHO" /\ got[1].id = P1 /\ got[1].c = 1
    /\ got[2].verb = "GOSSIP_DIGEST_ACK" /\ got[2].id = P1 /\ got[2].c = 2
    /\ got[3].verb = "GOSSIP_ECHO" /\ got[3].id = P2 /\ got[3].c = 3
    /\ conns[1].error /\ conns[1].stop = "pending"
    /\ ~conns[2].error /\ conns[2].stop = "pending"
    /\ conns[3].stop = "none"
    /\ clients = {[idx |-> 1, id |-> P2, c |-> 3]}

\* peers the snitch places in another datacenter, in another rack, than this node
OtherDc == {"p2"}
OtherRack == {"p1", "p2"}

\* the encrypt policy as the claim states it
EncryptPolicy(what, addr) ==
    CASE what = "none" -> FALSE
      [] what = "all" -> TRUE
      [] what = "dc" -> addr \in OtherDc
      [] what = "rack" -> addr \in OtherRack

\* C18: on a service that was given credentials, a connection get_rpc_client
\* makes is encrypted as the encrypt policy says (none: never; all: always;
\* dc: peer in another datacenter; rack: peer in another rack); it goes to
\* the ssl port with the credentials when encrypted, and to the plain port
\* without credentials otherwise.
C18_EncryptFollowsPolicy ==
    cfg.credentials =>
        \A c \in DOMAIN conns :
            LET want == EncryptPolicy(cfg.encrypt_what, conns[c].addr)
            IN  /\ conns[c].port = (IF want THEN "ssl_port" ELSE "port")
                /\ conns[c].credentials = want

\* C19: a service constructed without a credentials builder has no TLS
\* listener in either TLS slot, whatever the encrypt policy, start_listen()
\* having run or not.
C19_NoCredentialsNoTls ==
    ~cfg.credentials => \A i \in Slots : server_tls[i] = "null"

\* C20: after start_listen(), called in whatever state the service is, plain
\* slot 0 is occupied; plain slot 1 is occupied exactly when
\* should_listen_to_broadcast_address is set and the broadcast address is not
\* the listen address; TLS slot 0 is occupied exactly when the encrypt policy
\* is not none, TLS slot 1 exactly when moreover plain slot 1 is.
C20_ListenerSlots ==
    LET s == start_listen_plain(server)
        t == start_listen_tls(server_tls)
        bc == cfg.sltba /\ cfg.bc_differs
        enc == cfg.encrypt_what # "none"
    IN  /\ s[0] # "null"
        /\ s[1] # "null" <=> bc
        /\ t[0] # "null" <=> enc
        /\ t[1] # "null" <=> (enc /\ bc)
        /\ server[0] # "null" => (server = s /\ server_tls = t)

\* C20 witness: a service constructed with listen_now = false, told to listen
\* to a broadcast address that is not its listen address and to encrypt, has
\* all four slots listening after start_listen().
C20_Witness ==
    /\ ~cfg.listen_now /\ cfg.sltba /\ cfg.bc_differs /\ cfg.encrypt_what = "dc"
    /\ \A i \in Slots : server[i] = "listening" /\ server_tls[i] = "listening"
    /\ ~stopping

\* C21: start_listen() is idempotent: a second call, or a call on a service
\* constructed with listen_now = true, leaves every slot as the first call
\* left it, a listener that is stopping or stopped included; a service
\* constructed with listen_now = false has no listener at first, and a slot
\* is filled by no step but start_listen().
C21_StartListenIdempotent ==
    /\ (~cfg.listen_now => \A i \in Slots : server[i] = "null" /\ server_tls[i] = "null")
    /\ [](LET s == start_listen_plain(server)
              t == start_listen_tls(server_tls)
          IN  /\ start_listen_plain(s) = s /\ start_listen_tls(t) = t
              /\ server[0] # "null" => (s = server /\ t = server_tls))
    /\ [][(\E i \in Slots : \/ (server[i] = "null" /\ server'[i] # "null")
                           \/ (server_tls[i] = "null" /\ server_tls'[i] # "null"))
            => StartListen]_vars

\* C21 witness: a service constructed with listen_now = false was told to
\* listen, then to stop; its plain and TLS listeners on the listen address
\* are stopped and stay so whatever start_listen() is called again.
C21_Witness ==
    /\ ~cfg.listen_now /\ cfg.encrypt_what = "all" /\ ~cfg.sltba
    /\ server[0] = "stopped" /\ server_tls[0] = "stopped"
    /\ server[1] = "null" /\ server_tls[1] = "null"

\* requests the retry call of a run handed to the transport
Attempts == Cardinality({i \in DOMAIN sends : sends[i].call /\ sends[i].sent})

\* C22: the retry call stays within its budget of attempts: while the
\* service is not stopping and the peer is known, a call made with nr_retry
\* hands at most max(1, nr_retry) requests to the transport, for every
\* nr_retry, 0 included.
C22_RetryWithinBudget ==
    \A k \in DOMAIN retries :
        (~stopping /\ retries[k].id.addr \in known) =>
            Attempts <= (IF retries[k].nr_retry > 1 THEN retries[k].nr_retry ELSE 1)

\* C23: the failure of a request sent on a connection that has left the
\* cache never evicts a healthy replacement: when the request resolves,
\* with closed_error or otherwise, every cached connection other than the
\* request's own that is not in error stays in its table and is not stopped.
C23_LateFailureKeepsReplacement ==
    [][\A i \in DOMAIN sends :
          (sends[i].st = "inflight" /\ sends'[i].st # "inflight") =>
              \A e \in clients :
                  (e.c # sends[i].c /\ ~conns[e.c].error) =>
                      (e \in clients' /\ conns'[e.c] = conns[e.c])]_vars

\* C23 witness: connection 1, healthy, was removed from the cache with a
\* request on it; the request failed with closed_error; connection 2, made
\* for the same key, is cached, healthy, not stopped, and carries a request.
C23_Witness ==
    /\ ~stopping
    /\ Len(sends) = 2
    /\ sends[1].sent /\ sends[1].raw = "closed_error" /\ sends[1].st = "closed_error"
    /\ sends[1].verb = sends[2].verb
    /\ ~conns[1].error /\ conns[1].stop = "pending"
    /\ sends[2].st = "inflight" /\ sends[2].c = 2
    /\ ~conns[2].error /\ conns[2].stop = "none"
    /\ \E e \in clients : e.c = 2 /\ e.idx = get_rpc_client_idx(sends[1].verb)

\* C24: with stop() of the service called once, stop() is called at most
\* once on every connection, whatever the order of sends, completions,
\* removals and stop(): a connection stopped when evicted is out of the
\* tables when stop_client walks them, and one stopped by stop_client is not
\* stopped again by a later removal.
C24_StopOncePerConnection ==
    \A c \in DOMAIN conns : conns[c].stop_calls <= 1

\* C24 witness: the service is stopping; connection 1 was evicted and stopped
\* before stop(), connection 2 was in its table, in error, when stop_client
\* stopped it, and the request on it failed with closed_error; each was
\* stopped once.
C24_Witness ==
    /\ stopping
    /\ Len(conns) >= 2
    /\ conns[1].stop_calls = 1 /\ \A e \in clients : e.c # 1
    /\ conns[2].stop_calls = 1 /\ conns[2].error /\ \E e \in clients : e.c = 2
    /\ \E i \in DOMAIN sends : sends[i].sent /\ sends[i].st = "closed_error"

\* C25: once _stopping is set the two tables are frozen: no step, a removal
\* called from outside or by the continuation of a request that failed with
\* closed_error included, erases an entry or calls stop() on a connection.
C25_CacheFrozenOnceStopping ==
    [][stopping =>
          /\ clients' = clients
          /\ \A c \in DOMAIN conns : conns'[c].stop_calls = conns[c].stop_calls]_vars

\* C25 witness: the service is stopping, a request on a cached connection in
\* error has failed with closed_error, and that connection is still in its
\* table, stopped once, by stop_client.
C25_Witness ==
    /\ stopping
    /\ \E i \in DOMAIN sends :
           /\ sends[i].sent /\ sends[i].raw = "closed_error"
           /\ \E e \in Find(clients, get_rpc_client_idx(sends[i].verb), sends[i].id) :
                  conns[e.c].error /\ conns[e.c].stop_calls = 1
    /\ \A c \in DOMAIN conns : conns[c].stop_calls = 1

\* C26: no call of get_rpc_client made by a send primitive fails
\* assert(!_stopping): send_message and send_message_timeout, and through
\* them every turn of the retry loop, test is_stopping() and call
\* get_rpc_client in one run, with no suspension in between.
C26_AssertNeverFails ==
    \A i \in DOMAIN sends : ~sends[i].failed_assert

\* C26 witness: the first attempt of a retry call went through
\* get_rpc_client before stop(); stop() came during the sleep and the turn of
\* the loop that follows the sleep was refused before it reached
\* get_rpc_client.
C26_Witness ==
    /\ stopping
    /\ \E i \in DOMAIN sends : sends[i].sent /\ sends[i].call
    /\ \E k \in DOMAIN retries :
           /\ retries[k].sleeps = 1
           /\ retries[k].pc = "done"
           /\ retries[k].result = "closed_error"
           /\ ~sends[retries[k].cur].sent
    /\ \A i \in DOMAIN sends : ~sends[i].failed_assert

====
